---- MODULE Spec2Model ----
(***************************************************************************)
(* A model of TPCUtils (modules/RTC/TPCUtils.js): the unified-plan track   *)
(* operations of a TraceablePeerConnection.  The state is the list of      *)
(* RTCRtpTransceivers of the peerconnection, the three bookkeeping tables  *)
(* of the TraceablePeerConnection (localTracks, localSSRCs, _addedStreams) *)
(* and the promises of the sender calls that have not settled yet.         *)
(*                                                                         *)
(* A call of an asynchronous operation is one step (the synchronous part   *)
(* up to the sender call); the settling of the sender's promise together   *)
(* with the .then() continuation chained on it is another step: the        *)
(* browser sets the sender's track and resolves the promise in one task,   *)
(* and the continuation runs as a microtask of that task.  The promise     *)
(* returned to the caller stays in the state until the caller resumes.     *)
(***************************************************************************)
EXTENDS Integers, Sequences, FiniteSets, TLC

VARIABLES
    browser,        \* the platform flags read through the browser module
    transceivers,   \* pc.peerconnection.getTransceivers(), in creation order
    localTracks,    \* pc.localTracks: rtcId -> JitsiLocalTrack
    localSSRCs,     \* pc.localSSRCs: rtcId -> ssrc info
    addedStreams,   \* pc._addedStreams
    calls,          \* the calls whose caller has not resumed yet
    argument,       \* the argument of a call of one of the description and
                    \* parameter utilities (with the object state it reads)
    returned        \* what the last such call returned or left behind

vars == <<browser, transceivers, localTracks, localSSRCs, addedStreams, calls,
         argument, returned>>
tables == <<localTracks, localSSRCs, addedStreams>>

(***************************************************************************)
(* Bounds of the model.                                                    *)
(***************************************************************************)
MaxTransceivers == 2

(***************************************************************************)
(* MediaType and TransceiverDirection.                                     *)
(***************************************************************************)
AUDIO == "audio"
VIDEO == "video"
MediaTypes == {AUDIO, VIDEO}

INACTIVE == "inactive"
RECVONLY == "recvonly"
SENDONLY == "sendonly"
SENDRECV == "sendrecv"
TransceiverDirection == {INACTIVE, RECVONLY, SENDONLY, SENDRECV}

(***************************************************************************)
(* The JitsiLocalTrack objects handed to the operations: two camera tracks *)
(* (rtcId), each as it is while its device is live (a MediaStream is       *)
(* attached) and as it is while its device is muted (no MediaStream,       *)
(* isMuted()).  The MediaStreamTrack of a track keeps its id.  NoTrack is  *)
(* the absent argument (null or undefined).  Audio is present as the kind  *)
(* of remote transceivers.                                                 *)
(***************************************************************************)
NoStream == "none"
RtcIds == {"camA", "camB"}
StreamOf(id) == IF id = "camA" THEN "streamA" ELSE IF id = "camB" THEN "streamB" ELSE "streamMic"
LiveTrack(id) == [rtcId |-> id, stream |-> StreamOf(id), muted |-> FALSE]
MutedTrack(id) == [rtcId |-> id, stream |-> NoStream, muted |-> TRUE]
NoTrack == [rtcId |-> "none", stream |-> NoStream, muted |-> TRUE]
LiveTracks == {LiveTrack(id) : id \in RtcIds}
LocalTrackObjects == LiveTracks \cup {MutedTrack(id) : id \in RtcIds}

getType(t) == IF t.rtcId \in RtcIds THEN VIDEO ELSE AUDIO
isVideoTrack(t) == getType(t) = VIDEO
getOriginalStream(t) == t.stream
isMuted(t) == t.muted
\* the id of the MediaStreamTrack of a JitsiLocalTrack
getTrackId(t) == IF t.rtcId = "camA" THEN "mstA" ELSE IF t.rtcId = "camB" THEN "mstB" ELSE "mstMic"
getTrack(t) == getTrackId(t)
NoMediaStreamTrack == "none"
KindOfMediaStreamTrack(m) == IF m \in {"mstA", "mstB"} THEN VIDEO ELSE AUDIO

(***************************************************************************)
(* Table values.  A Map has no entry (NoEntry), or an entry whose value    *)
(* may be undefined (localSSRCs.set(id, undefined) creates an entry).      *)
(***************************************************************************)
NoEntry == "absent"
Undefined == "undefined"
SsrcValues == {"ssrc1"}
MapGet(m, k) == IF m[k] = NoEntry THEN Undefined ELSE m[k]
MapHas(m, k) == m[k] # NoEntry
MapSet(m, k, v) == [m EXCEPT ![k] = v]
MapDelete(m, k) == [m EXCEPT ![k] = NoEntry]
\* pc.getLocalTracks(mediaType): the tracks of the table are camera tracks
getLocalTracks(mediaType) ==
    {k \in RtcIds : MapHas(localTracks, k) /\ mediaType = VIDEO}

(***************************************************************************)
(* Transceivers: the kind of the receiver's track, the id of the sender's  *)
(* track (NoMediaStreamTrack when the sender is empty) and the direction.  *)
(***************************************************************************)
Transceiver(kind, senderTrack, direction) ==
    [kind |-> kind, sender |-> senderTrack, direction |-> direction]
TransceiverKind(trs, mediaType) == {i \in DOMAIN trs : trs[i].kind = mediaType}
NotFound == 0
FirstOf(S) == IF S = {} THEN NotFound ELSE CHOOSE i \in S : \A j \in S : i <= j

\* _findTransceiver(mediaType, localTrack), on the transceiver list trs
findTransceiver(trs, mediaType, localTrack) ==
    LET trackRemoved ==
            \/ localTrack = NoTrack
            \/ /\ browser.doesVideoMuteByStreamRemove
               /\ isVideoTrack(localTrack)
               /\ isMuted(localTrack)
    IN  IF trackRemoved
        THEN FirstOf(TransceiverKind(trs, mediaType))
        ELSE FirstOf({i \in DOMAIN trs : trs[i].sender = getTrackId(localTrack)})


(***************************************************************************)
(* A call of an operation of TPCUtils, from the call until its caller has  *)
(* resumed: the promise it returned is suspended at the sender call        *)
(* ("sender": sender.replaceTrack, "parameters": sender.setParameters) or  *)
(* settled ("resolved", "rejected"); a synchronous operation has           *)
(* "returned" or "threw".  tr is the transceiver of the sender call.       *)
(***************************************************************************)
Call(op, path, old, new, tr, state) ==
    [op |-> op, path |-> path, kind |-> VIDEO, old |-> old, new |-> new,
     tr |-> tr, state |-> state]
SyncCall(op, mode, kind, new, tr, state) ==
    [op |-> op, path |-> mode, kind |-> kind, old |-> NoTrack, new |-> new,
     tr |-> tr, state |-> state]
Settled == {"resolved", "rejected", "returned", "threw"}
\* the outcome of a call of a utility function: none yet, a value, an error
NotCalled == [state |-> "not called"]
Returned(value) == [state |-> "returned", value |-> value]
Threw(error) == [state |-> "threw", error |-> error]
\* callers await one operation before they start the next
Idle == calls = {}

Init ==
    /\ browser \in [isChromiumBased : BOOLEAN, doesVideoMuteByStreamRemove : BOOLEAN]
    /\ transceivers = <<>>
    /\ localTracks = [k \in RtcIds |-> NoEntry]
    /\ localSSRCs = [k \in RtcIds |-> NoEntry]
    /\ addedStreams = <<>>
    /\ calls = {}
    /\ argument = NotCalled
    /\ returned = NotCalled

(***************************************************************************)
(* The surroundings of TPCUtils.                                           *)
(***************************************************************************)
\* setRemoteDescription creates a recvonly transceiver for a remote m-line
RemoteAddTransceiver(kind) ==
    /\ Idle
    /\ Len(transceivers) < MaxTransceivers
    /\ transceivers' = Append(transceivers, Transceiver(kind, NoMediaStreamTrack, RECVONLY))
    /\ UNCHANGED <<browser, argument, returned, localTracks, localSSRCs, addedStreams, calls>>

\* TraceablePeerConnection.addTrack registers the track before TPCUtils.addTrack
RegisterLocalTrack(id) ==
    /\ Idle
    /\ ~MapHas(localTracks, id)
    /\ localTracks' = MapSet(localTracks, id, id)
    /\ UNCHANGED <<browser, argument, returned, transceivers, localSSRCs, addedStreams, calls>>

\* the local description is processed and a registered track gets its ssrc
AssignSSRC(id) ==
    /\ Idle
    /\ MapHas(localTracks, id)
    /\ ~MapHas(localSSRCs, id)
    /\ LET free == {s \in SsrcValues : \A k \in RtcIds : localSSRCs[k] # s}
       IN  /\ free # {}
           /\ localSSRCs' = MapSet(localSSRCs, id, CHOOSE s \in free : TRUE)
    /\ UNCHANGED <<browser, argument, returned, transceivers, localTracks, addedStreams, calls>>

\* the caller of a settled operation resumes
CallerResumes(c) ==
    /\ c \in calls /\ c.state \in Settled
    /\ calls' = calls \ {c}
    /\ UNCHANGED <<browser, argument, returned, transceivers, localTracks, localSSRCs, addedStreams>>

(***************************************************************************)
(* RTCRtpSender.replaceTrack(withTrack) and the transceiver's direction.   *)
(***************************************************************************)
SetSenderTrack(trs, i, withTrack) == [trs EXCEPT ![i].sender = withTrack]
SetDirection(trs, i, direction) ==
    IF i = NotFound THEN trs ELSE [trs EXCEPT ![i].direction = direction]

(***************************************************************************)
(* addTrack(localTrack, isInitiator)                                       *)
(***************************************************************************)
\* pc.addTransceiver(track, {direction: 'sendrecv', ...})
AddTransceiver(trs, track) ==
    Append(trs, Transceiver(KindOfMediaStreamTrack(track), track, SENDRECV))

AddTrackInitiator(t) ==
    /\ Len(transceivers) < MaxTransceivers
    /\ transceivers' = AddTransceiver(transceivers, getTrack(t))
    /\ calls' = {SyncCall("addTrack", "initiator", getType(t), t, Len(transceivers'), "returned")}
    /\ UNCHANGED <<browser, argument, returned, localTracks, localSSRCs, addedStreams>>

\* the direction pc.addTrack gives to the unused transceiver it claims
ClaimedDirection(direction) == IF direction = RECVONLY THEN SENDRECV ELSE SENDONLY

\* pc.addTrack(track) throws when a sender already carries the track; else it
\* attaches the track to the first unused transceiver of its kind, whose
\* direction turns from recvonly to sendrecv or from inactive to sendonly,
\* or, when there is none, creates a sendrecv transceiver.  A transceiver
\* counts as unused while its sender is empty and its direction is not a
\* sending one.
AddTrackResponder(t) ==
    LET track == getTrack(t)
        carried == \E j \in DOMAIN transceivers : transceivers[j].sender = track
        i == FirstOf({j \in TransceiverKind(transceivers, KindOfMediaStreamTrack(track)) :
                         /\ transceivers[j].sender = NoMediaStreamTrack
                         /\ transceivers[j].direction \in {RECVONLY, INACTIVE}})
    IN  /\ \/ /\ carried
              /\ calls' = {SyncCall("addTrack", "responder", getType(t), t, NotFound, "threw")}
              /\ UNCHANGED transceivers
           \/ /\ ~carried /\ i # NotFound
              /\ transceivers' = SetDirection(SetSenderTrack(transceivers, i, track), i,
                                              ClaimedDirection(transceivers[i].direction))
              /\ calls' = {SyncCall("addTrack", "responder", getType(t), t, i, "returned")}
           \/ /\ ~carried /\ i = NotFound
              /\ Len(transceivers) < MaxTransceivers
              /\ transceivers' = AddTransceiver(transceivers, track)
              /\ calls' = {SyncCall("addTrack", "responder", getType(t), t,
                                    Len(transceivers'), "returned")}
        /\ UNCHANGED <<browser, argument, returned, localTracks, localSSRCs, addedStreams>>

\* a track is added while its device is live
AddTrack(t, isInitiator) ==
    /\ Idle
    /\ IF isInitiator THEN AddTrackInitiator(t) ELSE AddTrackResponder(t)

(***************************************************************************)
(* addTrackUnmute(localTrack) and removeTrackMute(localTrack): the         *)
(* transceiver whose sender is asked to replace its track, or NotFound     *)
(* (the promise is rejected).                                              *)
(***************************************************************************)
\* (a lookup that forgets the media kind)
addTrackUnmuteTransceiverOfAnyKind(t) == FirstOf(DOMAIN transceivers)
addTrackUnmuteTransceiver(t) == findTransceiver(transceivers, getType(t), NoTrack)
removeTrackMuteTransceiver(t) == findTransceiver(transceivers, getType(t), t)

\* a call that changes nothing but its own record
Starts(c) ==
    /\ calls' = calls \cup {c}
    /\ UNCHANGED <<browser, argument, returned, transceivers, localTracks, localSSRCs, addedStreams>>
\* the record of a call that needs transceiver tr: rejected when tr is
\* NotFound, else suspended at the sender call
SenderCall(op, path, old, new, tr) ==
    Call(op, path, old, new, tr, IF tr = NotFound THEN "rejected" ELSE "sender")

\* a track is unmuted while its device is live
AddTrackUnmute(t) ==
    /\ Idle
    /\ Starts(SenderCall("addTrackUnmute", "addTrackUnmute", NoTrack, t,
                         addTrackUnmuteTransceiver(t)))

RemoveTrackMute(t) ==
    /\ Idle
    /\ Starts(SenderCall("removeTrackMute", "removeTrackMute", t, NoTrack,
                         removeTrackMuteTransceiver(t)))

(***************************************************************************)
(* replaceTrack(oldTrack, newTrack): the writes of its continuations.      *)
(***************************************************************************)
\* (a swap that forgets to remove oldTrack)
SwappedLocalTracksKeepingOld(lt, oldTrack, newTrack) ==
    MapSet(lt, newTrack.rtcId, newTrack.rtcId)
\* both tracks, newTrack has no stream: only the id -> track table is swapped
SwappedLocalTracks(lt, oldTrack, newTrack) ==
    MapSet(MapDelete(lt, oldTrack.rtcId), newTrack.rtcId, newTrack.rtcId)
\* (a replacement that drops the SSRC with oldTrack's entry)
ReplacedLocalSSRCsDropped(ssrcs, oldTrack, newTrack) ==
    MapDelete(ssrcs, oldTrack.rtcId)
\* (a replacement that leaves oldTrack's entry to a later step)
ReplacedLocalSSRCsKeepingOld(ssrcs, oldTrack, newTrack) ==
    MapSet(ssrcs, newTrack.rtcId, MapGet(ssrcs, oldTrack.rtcId))
\* both tracks, after sender.replaceTrack(track) resolved
ReplacedLocalSSRCs(ssrcs, oldTrack, newTrack) ==
    LET ssrc == MapGet(ssrcs, oldTrack.rtcId)
    IN  MapSet(MapDelete(ssrcs, oldTrack.rtcId), newTrack.rtcId, ssrc)
ReplacedAddedStreams(streams, stream) ==
    Append(SelectSeq(streams, LAMBDA s : s # stream), stream)
\* mute path, after removeTrackMute(oldTrack) resolved
MutedTransceivers(trs, oldTrack) ==
    SetDirection(trs, findTransceiver(trs, getType(oldTrack), NoTrack), RECVONLY)
\* (the direction of the mute path, copied to the unmute path)
UnmutedTransceiversRecvonly(trs, newTrack) ==
    SetDirection(trs, findTransceiver(trs, getType(newTrack), newTrack), RECVONLY)
\* unmute path, after addTrackUnmute(newTrack) resolved
UnmutedTransceivers(trs, newTrack) ==
    SetDirection(trs, findTransceiver(trs, getType(newTrack), newTrack), SENDRECV)
\* (a table written before the encodings are committed)
UnmutedLocalTracksEarly(lt, newTrack, encodingsResolved) ==
    MapSet(lt, newTrack.rtcId, newTrack.rtcId)
\* unmute path: the id -> track table once the sender call resolved; the
\* track is added only when the promise of the encodings has resolved too
UnmutedLocalTracks(lt, newTrack, encodingsResolved) ==
    IF encodingsResolved THEN MapSet(lt, newTrack.rtcId, newTrack.rtcId) ELSE lt
\* (a call without tracks treated as an error)
NoTracksStateRejected == "rejected"
\* the promise returned when neither track is given
NoTracksState == "resolved"

\* replaceTrack(oldTrack, newTrack) with two tracks
ReplaceTrackBoth(oldTrack, newTrack) ==
    /\ Idle
    /\ oldTrack.rtcId # newTrack.rtcId
    /\ IF getOriginalStream(newTrack) = NoStream
       THEN /\ localTracks' = SwappedLocalTracks(localTracks, oldTrack, newTrack)
            /\ calls' = calls \cup {Call("replaceTrack", "nostream", oldTrack, newTrack,
                                         NotFound, "resolved")}
            /\ UNCHANGED <<browser, argument, returned, transceivers, localSSRCs, addedStreams>>
       ELSE Starts(SenderCall("replaceTrack", "replace", oldTrack, newTrack,
                              findTransceiver(transceivers, getType(newTrack), oldTrack)))

\* replaceTrack(oldTrack, undefined): the mute path
ReplaceTrackMute(oldTrack) ==
    /\ Idle
    /\ Starts(SenderCall("replaceTrack", "mute", oldTrack, NoTrack,
                         removeTrackMuteTransceiver(oldTrack)))

\* replaceTrack(undefined, newTrack): the unmute path, with a live track
ReplaceTrackUnmute(newTrack) ==
    /\ Idle
    /\ Starts(SenderCall("replaceTrack", "unmute", NoTrack, newTrack,
                         addTrackUnmuteTransceiver(newTrack)))

\* replaceTrack(undefined, undefined)
ReplaceTrackNone ==
    /\ Idle
    /\ Starts(Call("replaceTrack", "none", NoTrack, NoTrack, NotFound, NoTracksState))

(***************************************************************************)
(* setEncodings(track): the transceiver whose sender is asked to commit    *)
(* the parameters, or NotFound when there is none or when the sender       *)
(* reports no encodings (the promise is then resolved at once).            *)
(***************************************************************************)
setEncodingsTransceiver(trs, track, hasEncodings) ==
    LET tr == findTransceiver(trs, getType(track), track)
    IN  IF tr # NotFound /\ hasEncodings THEN tr ELSE NotFound

\* (a setEncodings that reports the transceiver it did not find)
setEncodingsStateReportingNotFound(tr) == IF tr = NotFound THEN "rejected" ELSE "parameters"
\* the promise setEncodings returns: Promise.resolve(), or the promise of
\* sender.setParameters()
setEncodingsState(tr) == IF tr = NotFound THEN "resolved" ELSE "parameters"

SetEncodings(t) ==
    /\ Idle
    /\ \E hasEncodings \in BOOLEAN :
          LET tr == setEncodingsTransceiver(transceivers, t, hasEncodings)
          IN  Starts(Call("setEncodings", "setEncodings", t, NoTrack, tr,
                          setEncodingsState(tr)))

(***************************************************************************)
(* The promise of sender.replaceTrack() settles.                           *)
(***************************************************************************)
WithTrack(c) == IF c.new = NoTrack THEN NoMediaStreamTrack ELSE getTrack(c.new)
\* (a continuation that never settles the promise of the call)
BecomesNothing(c, tr, state) == calls
Becomes(c, tr, state) == (calls \ {c}) \cup {[c EXCEPT !.tr = tr, !.state = state]}

SenderRejects(c) ==
    /\ c \in calls /\ c.state = "sender"
    /\ calls' = Becomes(c, c.tr, "rejected")
    /\ UNCHANGED <<browser, argument, returned, transceivers, localTracks, localSSRCs, addedStreams>>

SenderResolves(c) ==
    /\ c \in calls /\ c.state = "sender"
    /\ LET trs == SetSenderTrack(transceivers, c.tr, WithTrack(c))
       IN  \/ /\ c.path \in {"addTrackUnmute", "removeTrackMute"}
              /\ transceivers' = trs
              /\ calls' = Becomes(c, c.tr, "resolved")
              /\ UNCHANGED <<localTracks, localSSRCs, addedStreams>>
           \/ /\ c.path = "replace"
              /\ transceivers' = trs
              /\ localTracks' = SwappedLocalTracks(localTracks, c.old, c.new)
              /\ localSSRCs' = ReplacedLocalSSRCs(localSSRCs, c.old, c.new)
              /\ addedStreams' = ReplacedAddedStreams(addedStreams, getOriginalStream(c.new))
              /\ calls' = Becomes(c, c.tr, "resolved")
           \/ /\ c.path = "mute"
              /\ transceivers' = MutedTransceivers(trs, c.old)
              /\ localTracks' = MapDelete(localTracks, c.old.rtcId)
              /\ localSSRCs' = MapDelete(localSSRCs, c.old.rtcId)
              /\ calls' = Becomes(c, c.tr, "resolved")
              /\ UNCHANGED addedStreams
           \/ /\ c.path = "unmute"
              /\ transceivers' = UnmutedTransceivers(trs, c.new)
              /\ \E hasEncodings \in BOOLEAN :
                    LET tr == IF browser.isChromiumBased
                              THEN NotFound
                              ELSE setEncodingsTransceiver(transceivers', c.new, hasEncodings)
                    IN  /\ localTracks' = UnmutedLocalTracks(localTracks, c.new, tr = NotFound)
                        /\ calls' = IF tr = NotFound
                                    THEN Becomes(c, c.tr, "resolved")
                                    ELSE Becomes(c, tr, "parameters")
              /\ UNCHANGED <<localSSRCs, addedStreams>>
    /\ UNCHANGED <<browser, argument, returned>>

(***************************************************************************)
(* The promise of sender.setParameters() settles.                          *)
(***************************************************************************)
\* (a continuation that runs whether the commit resolved or not)
CommittedLocalTracksAnyway(lt, c, resolved) ==
    IF c.path = "unmute" THEN MapSet(lt, c.new.rtcId, c.new.rtcId) ELSE lt
\* unmute path: the .then() of the promise of the encodings adds the track
CommittedLocalTracks(lt, c, resolved) ==
    IF c.path = "unmute" /\ resolved THEN MapSet(lt, c.new.rtcId, c.new.rtcId) ELSE lt

ParametersSettle(c, resolved) ==
    /\ c \in calls /\ c.state = "parameters"
    /\ calls' = Becomes(c, c.tr, IF resolved THEN "resolved" ELSE "rejected")
    /\ localTracks' = CommittedLocalTracks(localTracks, c, resolved)
    /\ UNCHANGED <<browser, argument, returned, transceivers, localSSRCs, addedStreams>>

(***************************************************************************)
(* setMediaTransferActive(mediaType, active)                               *)
(***************************************************************************)
\* (a suspension that reaches only the first transceiver)
TransferDirectionOfFirstOnly(active, idx, nLocalTracks) ==
    IF idx = 0
    THEN IF active /\ nLocalTracks > 0 THEN SENDRECV ELSE IF active THEN RECVONLY ELSE INACTIVE
    ELSE RECVONLY
\* the direction given to the transceiver at position idx of the filtered list
TransferDirection(active, idx, nLocalTracks) ==
    IF active
    THEN IF idx = 0 /\ nLocalTracks > 0 THEN SENDRECV ELSE RECVONLY
    ELSE INACTIVE

MediaTransferTransceivers(trs, mediaType, active, nLocalTracks) ==
    LET ofKind == TransceiverKind(trs, mediaType)
        idx(i) == Cardinality({j \in ofKind : j < i})
    IN  [i \in DOMAIN trs |->
            IF i \in ofKind
            THEN [trs[i] EXCEPT !.direction = TransferDirection(active, idx(i), nLocalTracks)]
            ELSE trs[i]]

SetMediaTransferActive(mediaType, active) ==
    /\ Idle
    /\ transceivers' = MediaTransferTransceivers(transceivers, mediaType, active,
                                                 Cardinality(getLocalTracks(mediaType)))
    /\ calls' = {SyncCall("setMediaTransferActive", IF active THEN "active" ELSE "suspended",
                          mediaType, NoTrack, NotFound, "returned")}
    /\ UNCHANGED <<browser, argument, returned, localTracks, localSSRCs, addedStreams>>

Next ==
    \/ \E kind \in MediaTypes : RemoteAddTransceiver(kind)
    \/ \E id \in RtcIds : RegisterLocalTrack(id)
    \/ \E id \in RtcIds : AssignSSRC(id)
    \/ \E c \in calls : CallerResumes(c)
    \/ \E t \in LiveTracks, isInitiator \in BOOLEAN : AddTrack(t, isInitiator)
    \/ \E t \in LiveTracks : AddTrackUnmute(t)
    \/ \E t \in LocalTrackObjects : RemoveTrackMute(t)
    \/ \E o, n \in LocalTrackObjects : ReplaceTrackBoth(o, n)
    \/ \E o \in LocalTrackObjects : ReplaceTrackMute(o)
    \/ \E n \in LiveTracks : ReplaceTrackUnmute(n)
    \/ ReplaceTrackNone
    \/ \E t \in LocalTrackObjects : SetEncodings(t)
    \/ \E c \in calls : SenderRejects(c)
    \/ \E c \in calls : SenderResolves(c)
    \/ \E c \in calls, resolved \in BOOLEAN : ParametersSettle(c, resolved)
    \/ \E mediaType \in MediaTypes, active \in BOOLEAN : SetMediaTransferActive(mediaType, active)

Spec == Init /\ [][Next]_vars

(***************************************************************************)
(* Session descriptions, as transform.parse() presents them: the type of   *)
(* the description and its media sections.  An attribute that the          *)
(* description does not have is Undefined; transform.write() leaves out    *)
(* the attributes that are Undefined and keeps the others as they are.     *)
(* The rids of a section are the list of its a=rid lines, which is never   *)
(* empty when the section has the attribute: NoRids stands for undefined.  *)
(* A simulcast attribute is the text of its line.                          *)
(***************************************************************************)
NoRids == <<>>
MaxSections == 2

SIM_LAYER_1_RID == "1"
SIM_LAYER_2_RID == "2"
SIM_LAYER_3_RID == "3"
SIM_LAYER_RIDS == <<SIM_LAYER_1_RID, SIM_LAYER_2_RID, SIM_LAYER_3_RID>>

MediaSection(type, rids, simulcast, simulcast_03, ssrcs, ssrcGroups) ==
    [type |-> type, rids |-> rids, simulcast |-> simulcast, simulcast_03 |-> simulcast_03,
     ssrcs |-> ssrcs, ssrcGroups |-> ssrcGroups]
RTCSessionDescription(type, media) == [type |-> type, media |-> media]
DescriptionTypes == {"offer", "answer"}
\* the error of a property read on undefined
TypeError == "TypeError"

\* Array.prototype.join
RECURSIVE join(_, _)
join(seq, separator) ==
    IF seq = <<>> THEN ""
    ELSE IF Len(seq) = 1 THEN seq[1]
    ELSE seq[1] \o separator \o join(Tail(seq), separator)

(***************************************************************************)
(* insertUnifiedPlanSimulcastReceive(desc)                                 *)
(***************************************************************************)
\* the rids written to the first video section
ReceiveRids == [i \in DOMAIN SIM_LAYER_RIDS |-> [id |-> SIM_LAYER_RIDS[i], direction |-> "recv"]]
simulcastLine(b) ==
    IF b.isFirefox /\ b.isVersionGreaterThan71
    THEN "recv " \o join(SIM_LAYER_RIDS, ";")
    ELSE "recv rid=" \o join(SIM_LAYER_RIDS, ";")
\* sdp.media.findIndex(mline => mline.type === MediaType.VIDEO); NotFound for -1
findIndexOfVideo(media) == FirstOf({i \in DOMAIN media : media[i].type = VIDEO})
\* (a section that keeps its simulcast lines and loses only the rids)
WithoutRids(mline) == [mline EXCEPT !.rids = NoRids]
\* a video section other than the first one, once its simulcast lines are removed
WithoutSimulcast(mline) ==
    [mline EXCEPT !.rids = NoRids, !.simulcast = Undefined, !.simulcast_03 = Undefined]

insertUnifiedPlanSimulcastReceive(b, desc) ==
    IF b.usesSdpMungingForSimulcast
    THEN Returned(desc)
    ELSE LET media == desc.media
             idx == findIndexOfVideo(media)
         IN  IF idx = NotFound
             THEN Threw(TypeError)
             ELSE IF /\ media[idx].rids # NoRids
                     /\ (media[idx].simulcast_03 # Undefined \/ media[idx].simulcast # Undefined)
             THEN Returned(RTCSessionDescription(desc.type,
                      [i \in DOMAIN media |->
                          IF media[i].type = VIDEO /\ i # idx
                          THEN WithoutSimulcast(media[i])
                          ELSE media[i]]))
             ELSE Returned(RTCSessionDescription(desc.type,
                      [media EXCEPT ![idx].rids = ReceiveRids,
                                    ![idx].simulcast_03 = simulcastLine(b)]))

(***************************************************************************)
(* The descriptions handed to insertUnifiedPlanSimulcastReceive: up to     *)
(* MaxSections audio and video sections; a video section has the rids and  *)
(* simulcast lines of a receiver, those of a sender, or none.              *)
(***************************************************************************)
SendRids == <<[id |-> "hi", direction |-> "send"]>>
OfferedRids == {NoRids, ReceiveRids, SendRids}
OfferedSimulcast == {Undefined, "send hi"}
OfferedSimulcast03 == {Undefined, "send rid=hi"}
SimulcastSections ==
    {MediaSection(AUDIO, NoRids, Undefined, Undefined, <<>>, <<>>)}
    \cup {MediaSection(VIDEO, r, sim, sim03, <<>>, <<>>) :
             r \in OfferedRids, sim \in OfferedSimulcast, sim03 \in OfferedSimulcast03}
SequencesOf(S, n) == UNION {[1..k -> S] : k \in 1..n}
SimulcastDescriptions ==
    {RTCSessionDescription(type, media) :
        type \in DescriptionTypes, media \in SequencesOf(SimulcastSections, MaxSections)}

\* the state of the TPCUtils whose utility functions are called
NoTracksAdded ==
    /\ transceivers = <<>>
    /\ localTracks = [k \in RtcIds |-> NoEntry]
    /\ localSSRCs = [k \in RtcIds |-> NoEntry]
    /\ addedStreams = <<>>
    /\ calls = {}
\* what a call of a utility function leaves as it is
utilityFrame == <<browser, argument, transceivers, localTracks, localSSRCs, addedStreams, calls>>

InitSimulcast ==
    /\ browser \in [usesSdpMungingForSimulcast : BOOLEAN, isFirefox : BOOLEAN,
                    isVersionGreaterThan71 : BOOLEAN]
    /\ NoTracksAdded
    /\ argument \in SimulcastDescriptions
    /\ returned = NotCalled

InsertUnifiedPlanSimulcastReceive ==
    /\ returned = NotCalled
    /\ returned' = insertUnifiedPlanSimulcastReceive(browser, argument)
    /\ UNCHANGED utilityFrame

SpecSimulcast == InitSimulcast /\ [][InsertUnifiedPlanSimulcastReceive]_vars

(***************************************************************************)
(* ensureCorrectOrderOfSsrcs(description).  The ssrcs of a section are its *)
(* source descriptors (the id of the source and the attribute of the       *)
(* a=ssrc line); the ssrcs attribute of a group is the text of its ids,    *)
(* kept as the list of texts that split(' ') makes of it.                  *)
(***************************************************************************)
MaxGroups == 2

SsrcIds == {10, 20, 30, 40}
\* Number.prototype.toString
toString(id) == CASE id = 10 -> "10" [] id = 20 -> "20" [] id = 30 -> "30" [] id = 40 -> "40"
Source(id) == [id |-> id, attribute |-> "cname"]
SsrcGroup(semantics, members) ==
    [semantics |-> semantics, ssrcs |-> [i \in DOMAIN members |-> toString(members[i])]]

\* the sources of the ids listed, in the order of the list
RECURSIVE reorderedSsrcs(_, _)
reorderedSsrcs(ssrcs, list) ==
    IF list = <<>> THEN <<>>
    ELSE SelectSeq(ssrcs, LAMBDA source : toString(source.id) = Head(list))
         \o reorderedSsrcs(ssrcs, Tail(list))
\* a section that is not audio and has groups, with its sources reordered
withReorderedSsrcs(mLine) ==
    [mLine EXCEPT !.ssrcs = reorderedSsrcs(mLine.ssrcs, mLine.ssrcGroups[1].ssrcs)]

ensureCorrectOrderOfSsrcs(description) ==
    Returned(RTCSessionDescription(description.type,
        [i \in DOMAIN description.media |->
            LET mLine == description.media[i]
            IN  IF mLine.type = AUDIO THEN mLine
                ELSE IF mLine.ssrcGroups = <<>> THEN mLine
                ELSE withReorderedSsrcs(mLine)]))

(***************************************************************************)
(* The descriptions handed to ensureCorrectOrderOfSsrcs: a section lists   *)
(* distinct sources; its groups, at most MaxGroups, are FID pairs of       *)
(* sources of the section that share no source.  A description is one such *)
(* section, alone or after an audio section whose sources are not in the   *)
(* order of its group.                                                     *)
(***************************************************************************)
SourceLists ==
    {ssrcs \in UNION {[1..k -> SsrcIds] : k \in 0..Cardinality(SsrcIds)} :
        \A i, j \in DOMAIN ssrcs : i # j => ssrcs[i] # ssrcs[j]}
IdsOf(ssrcs) == {ssrcs[i] : i \in DOMAIN ssrcs}
GroupsOf(ids) ==
    {group \in {"FID"} \X (ids \X ids) : group[2][1] # group[2][2]}
GroupLists(ids) ==
    {groups \in UNION {[1..k -> GroupsOf(ids)] : k \in 0..MaxGroups} :
        \A i, j \in DOMAIN groups :
            i # j => IdsOf(groups[i][2]) \cap IdsOf(groups[j][2]) = {}}
SsrcSectionsOf(type, ssrcs) ==
    {MediaSection(type, NoRids, Undefined, Undefined,
                  [i \in DOMAIN ssrcs |-> Source(ssrcs[i])],
                  [i \in DOMAIN groups |-> SsrcGroup(groups[i][1], groups[i][2])]) :
        groups \in GroupLists(IdsOf(ssrcs))}
SsrcSections ==
    UNION {SsrcSectionsOf(type, ssrcs) : type \in MediaTypes, ssrcs \in SourceLists}
LeadingAudio ==
    MediaSection(AUDIO, NoRids, Undefined, Undefined, <<Source(20), Source(10)>>,
                 <<SsrcGroup("FID", <<10, 20>>)>>)
SsrcDescriptions ==
    {RTCSessionDescription("offer", <<mLine>>) : mLine \in SsrcSections}
    \cup {RTCSessionDescription("answer", <<LeadingAudio, mLine>>) : mLine \in SsrcSections}

InitSsrcs ==
    /\ browser = [isFirefox |-> FALSE]
    /\ NoTracksAdded
    /\ argument \in SsrcDescriptions
    /\ returned = NotCalled

EnsureCorrectOrderOfSsrcs ==
    /\ returned = NotCalled
    /\ returned' = ensureCorrectOrderOfSsrcs(argument)
    /\ UNCHANGED utilityFrame

SpecSsrcs == InitSsrcs /\ [][EnsureCorrectOrderOfSsrcs]_vars

(***************************************************************************)
(* updateEncodingsResolution(parameters).  An encoding is a record whose   *)
(* scaleResolutionDownBy field is absent when the browser reports none;    *)
(* parameters has no encodings field when the sender reports none.  The    *)
(* function returns nothing and writes into its argument: what it returns  *)
(* here is the parameters and the configuration as they are after it.      *)
(***************************************************************************)
\* the constructor's this.localStreamEncodingsConfig
localStreamEncodingsConfig(b) ==
    << [active |-> TRUE, rid |-> SIM_LAYER_1_RID,
        scaleResolutionDownBy |-> IF b.isFirefox THEN 1 ELSE 4],
       [active |-> TRUE, rid |-> SIM_LAYER_2_RID, scaleResolutionDownBy |-> 2],
       [active |-> TRUE, rid |-> SIM_LAYER_3_RID,
        scaleResolutionDownBy |-> IF b.isFirefox THEN 4 ELSE 1] >>

\* typeof encoding.scaleResolutionDownBy !== 'undefined'
hasScaleResolutionDownBy(encoding) == "scaleResolutionDownBy" \in DOMAIN encoding
\* encoding.scaleResolutionDownBy = value
withScaleResolutionDownBy(encoding, value) ==
    [field \in DOMAIN encoding \cup {"scaleResolutionDownBy"} |->
        IF field = "scaleResolutionDownBy" THEN value ELSE encoding[field]]

\* (every encoding reports the resolution of the first, reported or not)
allEqualEncodingsDefinedOrNot(encodings) ==
    \A i \in DOMAIN encodings :
        hasScaleResolutionDownBy(encodings[i]) = hasScaleResolutionDownBy(encodings[1])
        /\ (hasScaleResolutionDownBy(encodings[i]) =>
               encodings[i].scaleResolutionDownBy = encodings[1].scaleResolutionDownBy)
allEqualEncodings(encodings) ==
    \A i \in DOMAIN encodings :
        /\ hasScaleResolutionDownBy(encodings[i])
        /\ hasScaleResolutionDownBy(encodings[1])
        /\ encodings[i].scaleResolutionDownBy = encodings[1].scaleResolutionDownBy

updateEncodingsResolution(b, this, parameters) ==
    IF ~(b.isWebKitBased /\ "encodings" \in DOMAIN parameters)
    THEN Returned([parameters |-> parameters, this |-> this])
    ELSE IF allEqualEncodings(parameters.encodings)
    THEN IF Len(parameters.encodings) > Len(this.localStreamEncodingsConfig)
         THEN Threw(TypeError)
         ELSE Returned([parameters |->
                           [parameters EXCEPT !.encodings =
                               [idx \in DOMAIN parameters.encodings |->
                                   withScaleResolutionDownBy(parameters.encodings[idx],
                                       this.localStreamEncodingsConfig[idx].scaleResolutionDownBy)]],
                        this |-> this])
    ELSE Returned([parameters |-> parameters, this |-> this])

(***************************************************************************)
(* The parameters the sender reports: none, or one encoding for each layer *)
(* the transceiver was added with, at most those of the configuration,     *)
(* each with one of the factors of the configuration or with none.         *)
(***************************************************************************)
ScaleFactors == {1, 2, 4}
ReportedEncodings ==
    {[active |-> TRUE]} \cup {[active |-> TRUE, scaleResolutionDownBy |-> f] : f \in ScaleFactors}
ReportedParameters ==
    {[transactionId |-> "t1"]}
    \cup {[transactionId |-> "t1", encodings |-> encodings] :
            encodings \in {<<>>} \cup SequencesOf(ReportedEncodings,
                             Len(localStreamEncodingsConfig([isFirefox |-> FALSE])))}
Browsers ==
    {b \in [isWebKitBased : BOOLEAN, isFirefox : BOOLEAN] : ~(b.isWebKitBased /\ b.isFirefox)}

InitEncodings ==
    /\ browser \in Browsers
    /\ NoTracksAdded
    /\ argument \in {[parameters |-> parameters,
                      this |-> [localStreamEncodingsConfig |-> localStreamEncodingsConfig(browser)]] :
                        parameters \in ReportedParameters}
    /\ returned = NotCalled

UpdateEncodingsResolution ==
    /\ returned = NotCalled
    /\ returned' = updateEncodingsResolution(browser, argument.this, argument.parameters)
    /\ UNCHANGED utilityFrame

SpecEncodings == InitEncodings /\ [][UpdateEncodingsResolution]_vars

(***************************************************************************)
(* Overlapping calls of replaceTrack.  TPCUtils keeps no lock and no       *)
(* queue: a call runs up to its sender call while the sender calls of      *)
(* earlier ones are pending.  The callers start a call for a track only    *)
(* when no pending call names that track, after they have resumed from     *)
(* the calls that have settled, and at most MaxCalls calls are pending at  *)
(* a time.  The peerconnection has sent a microphone and a camera          *)
(* (addTrack as initiator, each with its SSRC); a second camera is known   *)
(* to the callers, live or with its device muted.  The callers mute and    *)
(* unmute the live tracks and switch between the cameras.                  *)
(***************************************************************************)
MaxCalls == 2

MicId == "mic"
OverlapIds == RtcIds \cup {MicId}
Microphone == LiveTrack(MicId)
Cameras == {LiveTrack(id) : id \in RtcIds} \cup {MutedTrack("camB")}

InitOverlap ==
    /\ browser \in [isChromiumBased : BOOLEAN, doesVideoMuteByStreamRemove : BOOLEAN]
    /\ transceivers = AddTransceiver(AddTransceiver(<<>>, getTrack(LiveTrack(MicId))),
                                     getTrack(LiveTrack("camA")))
    /\ localTracks = [k \in OverlapIds |-> IF k = "camB" THEN NoEntry ELSE k]
    /\ localSSRCs = [k \in OverlapIds |->
                        IF k = MicId THEN "ssrcMic" ELSE IF k = "camA" THEN "ssrc1" ELSE NoEntry]
    /\ addedStreams = <<StreamOf(MicId), StreamOf("camA")>>
    /\ calls = {}
    /\ argument = NotCalled
    /\ returned = NotCalled

\* a call of replaceTrack with these tracks may start: every call is
\* pending and none of them names one of its tracks
MayStart(oldTrack, newTrack) ==
    /\ Cardinality(calls) < MaxCalls
    /\ \A c \in calls :
          /\ c.state \notin Settled
          /\ {c.old.rtcId, c.new.rtcId}
                \cap ({oldTrack.rtcId, newTrack.rtcId} \ {NoTrack.rtcId}) = {}

OverlappingReplaceTrackBoth(oldTrack, newTrack) ==
    /\ MayStart(oldTrack, newTrack)
    /\ oldTrack.rtcId # newTrack.rtcId
    /\ IF getOriginalStream(newTrack) = NoStream
       THEN /\ localTracks' = SwappedLocalTracks(localTracks, oldTrack, newTrack)
            /\ calls' = calls \cup {Call("replaceTrack", "nostream", oldTrack, newTrack,
                                         NotFound, "resolved")}
            /\ UNCHANGED <<browser, argument, returned, transceivers, localSSRCs, addedStreams>>
       ELSE Starts(SenderCall("replaceTrack", "replace", oldTrack, newTrack,
                              findTransceiver(transceivers, getType(newTrack), oldTrack)))

OverlappingReplaceTrackMute(oldTrack) ==
    /\ MayStart(oldTrack, NoTrack)
    /\ Starts(SenderCall("replaceTrack", "mute", oldTrack, NoTrack,
                         removeTrackMuteTransceiver(oldTrack)))

OverlappingReplaceTrackUnmute(newTrack) ==
    /\ MayStart(NoTrack, newTrack)
    /\ Starts(SenderCall("replaceTrack", "unmute", NoTrack, newTrack,
                         addTrackUnmuteTransceiver(newTrack)))

NextOverlap ==
    \/ \E o, n \in Cameras : OverlappingReplaceTrackBoth(o, n)
    \/ \E o \in LiveTracks \cup {Microphone} : OverlappingReplaceTrackMute(o)
    \/ \E n \in LiveTracks \cup {Microphone} : OverlappingReplaceTrackUnmute(n)
    \/ \E c \in calls : SenderRejects(c)
    \/ \E c \in calls : SenderResolves(c)
    \/ \E c \in calls, resolved \in BOOLEAN : ParametersSettle(c, resolved)
    \/ \E c \in calls : CallerResumes(c)

SpecOverlap == InitOverlap /\ [][NextOverlap]_vars

(***************************************************************************)
(* The calls settle.  The callers of the peerconnection that has sent a    *)
(* microphone and a camera await one asynchronous operation before they    *)
(* start the next; the browser settles the promise of every sender call    *)
(* and of every commit of parameters (weak fairness of the settling        *)
(* steps: a pending promise stays pending until it is settled).            *)
(***************************************************************************)
NextSettling ==
    \/ \E t \in LiveTracks \cup {Microphone} : AddTrackUnmute(t)
    \/ \E t \in LiveTracks \cup {Microphone} : RemoveTrackMute(t)
    \/ \E o, n \in Cameras : ReplaceTrackBoth(o, n)
    \/ \E o \in LiveTracks \cup {Microphone} : ReplaceTrackMute(o)
    \/ \E n \in LiveTracks \cup {Microphone} : ReplaceTrackUnmute(n)
    \/ ReplaceTrackNone
    \/ \E t \in LiveTracks \cup {Microphone} : SetEncodings(t)
    \/ \E c \in calls : SenderRejects(c)
    \/ \E c \in calls : SenderResolves(c)
    \/ \E c \in calls, resolved \in BOOLEAN : ParametersSettle(c, resolved)
    \/ \E c \in calls : CallerResumes(c)

TransportSettles ==
    /\ WF_vars(\E c \in calls : SenderRejects(c) \/ SenderResolves(c))
    /\ WF_vars(\E c \in calls, resolved \in BOOLEAN : ParametersSettle(c, resolved))

SpecSettling == InitOverlap /\ [][NextSettling]_vars /\ TransportSettles

(***************************************************************************)
(* Properties.                                                             *)
(***************************************************************************)
\* the calls of an operation that this step starts, with their records
Started(op) == IF calls = {} THEN {c \in calls' : c.op = op} ELSE {}
\* the calls whose sender call resolves in this step
SenderResolved == {c \in calls : c.state = "sender" /\ \E d \in calls' : d.state # "rejected"
                                     /\ d.op = c.op /\ d.old = c.old /\ d.new = c.new}
\* the record of call c after this step
After(c) == CHOOSE d \in calls' : d.op = c.op /\ d.old = c.old /\ d.new = c.new
BothTracks(c) == c.op = "replaceTrack" /\ c.old # NoTrack /\ c.new # NoTrack
IsReplace(c) == BothTracks(c) /\ getOriginalStream(c.new) # NoStream
IsMute(c) == c.op = "replaceTrack" /\ c.old # NoTrack /\ c.new = NoTrack
IsUnmute(c) == c.op = "replaceTrack" /\ c.old = NoTrack /\ c.new # NoTrack
InSeq(x, seq) == \E i \in DOMAIN seq : seq[i] = x

\* C1: while a replaceTrack call has not succeeded (it is suspended or has
\* failed), no step writes the id -> track table, the SSRC table or the
\* added-streams list: they are written only in the step that makes the
\* call succeed, so a call that ends in failure leaves them as they were.
C1_FailedReplaceTrackWritesNothing ==
    [][(\E c \in calls' : c.op = "replaceTrack" /\ c.state # "resolved")
          => UNCHANGED tables]_vars
\* a replaceTrack unmute call has failed at the commit of the encodings,
\* after its sender call had succeeded
C1_Witness ==
    \E c \in calls : /\ IsUnmute(c) /\ c.state = "rejected" /\ c.tr # NotFound
                     /\ transceivers[c.tr].sender = getTrack(c.new)
                     /\ transceivers[c.tr].direction = SENDRECV
                     /\ ~MapHas(localTracks, c.new.rtcId)

\* C2: the step in which replaceTrack(oldTrack, newTrack), newTrack with a
\* stream, succeeds maps newTrack's id to the SSRC oldTrack's id had just
\* before, leaves oldTrack's id without entry in the SSRC table and in the
\* id -> track table, and maps newTrack's id to newTrack (so a chain of
\* such steps hands the SSRC of the first track on to the last).
C2_ReplaceKeepsSSRC ==
    [][\A c \in SenderResolved : IsReplace(c) =>
          /\ After(c).state = "resolved"
          /\ MapGet(localSSRCs', c.new.rtcId) = MapGet(localSSRCs, c.old.rtcId)
          /\ ~MapHas(localSSRCs', c.old.rtcId)
          /\ ~MapHas(localTracks', c.old.rtcId)
          /\ MapGet(localTracks', c.new.rtcId) = c.new.rtcId]_vars
\* a second replacement in a chain has succeeded and the track now bound
\* has an SSRC
C2_Witness ==
    \E c \in calls : /\ IsReplace(c) /\ c.state = "resolved"
                     /\ MapGet(localSSRCs, c.new.rtcId) \in SsrcValues
                     /\ Len(addedStreams) = 2

\* C3: the step in which replaceTrack(oldTrack, newTrack), newTrack with a
\* stream, succeeds leaves the stream of oldTrack out of the added-streams
\* list and the stream of newTrack in it.
C3_ReplaceSwapsStream ==
    [][\A c \in SenderResolved : IsReplace(c) =>
          /\ ~InSeq(getOriginalStream(c.old), addedStreams')
          /\ InSeq(getOriginalStream(c.new), addedStreams')]_vars

\* C4: replaceTrack(oldTrack, newTrack) with a newTrack that has no stream
\* succeeds at once; oldTrack's entry leaves the id -> track table and
\* newTrack's entry enters it, every other entry, the transceivers, the
\* SSRC table and the added-streams list stay as they are.
C4_NoStreamSwapsOnlyLocalTracks ==
    [][\A c \in Started("replaceTrack") :
          BothTracks(c) /\ getOriginalStream(c.new) = NoStream =>
             /\ c.state = "resolved"
             /\ localTracks' = [k \in RtcIds |->
                                   IF k = c.new.rtcId THEN c.new.rtcId
                                   ELSE IF k = c.old.rtcId THEN NoEntry
                                   ELSE localTracks[k]]
             /\ UNCHANGED <<transceivers, localSSRCs, addedStreams>>]_vars
\* such a call has succeeded while a sender carries oldTrack's media and
\* oldTrack has an SSRC that stays behind
C4_Witness ==
    \E c \in calls : /\ BothTracks(c) /\ getOriginalStream(c.new) = NoStream
                     /\ c.state = "resolved"
                     /\ \E i \in DOMAIN transceivers : transceivers[i].sender = getTrack(c.old)
                     /\ MapHas(localSSRCs, c.old.rtcId)
                     /\ MapHas(localTracks, c.new.rtcId)

\* C5: addTrackUnmute(track), called when no transceiver is of the track's
\* media kind, fails and changes neither a table nor a transceiver.
C5_AddTrackUnmuteNotFound ==
    [][\A c \in Started("addTrackUnmute") :
          TransceiverKind(transceivers, getType(c.new)) = {} =>
             /\ c.state = "rejected"
             /\ UNCHANGED <<transceivers, tables>>]_vars
\* the call has failed while the only transceiver is of the other kind
C5_Witness ==
    \E c \in calls : /\ c.op = "addTrackUnmute" /\ c.state = "rejected"
                     /\ TransceiverKind(transceivers, getType(c.new)) = {}
                     /\ transceivers # <<>>
                     /\ MapHas(localTracks, c.new.rtcId)

\* C6: replaceTrack without oldTrack and without newTrack succeeds and
\* changes neither a table nor a transceiver, in whatever state it is called.
C6_NoTracksSucceeds ==
    [][\A c \in Started("replaceTrack") :
          c.old = NoTrack /\ c.new = NoTrack =>
             /\ c.state = "resolved"
             /\ UNCHANGED <<transceivers, tables>>]_vars
\* the call has succeeded in a state with a sending transceiver and tables
\* that are not empty
C6_Witness ==
    \E c \in calls : /\ c.op = "replaceTrack" /\ c.old = NoTrack /\ c.new = NoTrack
                     /\ c.state = "resolved"
                     /\ \E i \in DOMAIN transceivers : transceivers[i].direction = SENDRECV
                     /\ \E k \in RtcIds : MapHas(localSSRCs, k)

\* C7: the step in which replaceTrack(oldTrack, none) succeeds leaves every
\* transceiver whose sender carried oldTrack's media with an empty sender
\* and the direction recvonly, and oldTrack's id without entry in the
\* id -> track table and in the SSRC table.
C7_MuteSetsCarrierRecvonly ==
    [][\A c \in SenderResolved : IsMute(c) =>
          /\ \A i \in DOMAIN transceivers :
                transceivers[i].sender = getTrack(c.old) =>
                   /\ transceivers'[i].sender = NoMediaStreamTrack
                   /\ transceivers'[i].direction = RECVONLY
          /\ ~MapHas(localTracks', c.old.rtcId)
          /\ ~MapHas(localSSRCs', c.old.rtcId)]_vars

\* C8: the step in which the sender call of replaceTrack(none, newTrack)
\* resolves puts newTrack's media on the sender of the call's transceiver
\* and gives that transceiver, and no other, the direction sendrecv; once
\* the call has succeeded the id -> track table maps newTrack's id to
\* newTrack.
C8_UnmuteSetsSendrecv ==
    /\ [][\A c \in SenderResolved : IsUnmute(c) =>
             /\ transceivers'[c.tr].sender = getTrack(c.new)
             /\ transceivers'[c.tr].direction = SENDRECV
             /\ \A i \in DOMAIN transceivers \ {c.tr} :
                   transceivers'[i] = transceivers[i]]_vars
    /\ [](\A c \in calls : IsUnmute(c) /\ c.state = "resolved" =>
             /\ MapGet(localTracks, c.new.rtcId) = c.new.rtcId
             /\ transceivers[c.tr].sender = getTrack(c.new)
             /\ transceivers[c.tr].direction = SENDRECV)
\* the call has succeeded on the second transceiver of the sequence, which
\* was not sendrecv before, next to a transceiver of the other kind
C8_Witness ==
    \E c \in calls : /\ IsUnmute(c) /\ c.state = "resolved" /\ c.tr = 2
                     /\ transceivers[1].kind = AUDIO
                     /\ transceivers[1].direction = INACTIVE
                     /\ transceivers[2].direction = SENDRECV
                     /\ transceivers[2].sender = getTrack(c.new)

\* C9: when setMediaTransferActive(kind, true) has returned, every
\* transceiver of that kind whose sender carries a local track is sendrecv
\* and every other transceiver of that kind, so every one with an empty
\* sender, is recvonly.
C9_ActiveFollowsSender ==
    \A c \in calls : c.op = "setMediaTransferActive" /\ c.path = "active" =>
        \A i \in TransceiverKind(transceivers, c.kind) :
            transceivers[i].direction =
                IF transceivers[i].sender # NoMediaStreamTrack THEN SENDRECV ELSE RECVONLY

\* C10: setMediaTransferActive(kind, false) makes every transceiver of that
\* kind inactive and changes neither the direction of a transceiver of the
\* other kind, nor the media of a sender, nor a table.
C10_SuspendSetsInactive ==
    [][\A c \in Started("setMediaTransferActive") : c.path = "suspended" =>
          /\ DOMAIN transceivers' = DOMAIN transceivers
          /\ \A i \in DOMAIN transceivers :
                /\ transceivers'[i].kind = transceivers[i].kind
                /\ transceivers'[i].sender = transceivers[i].sender
                /\ transceivers'[i].direction =
                      IF transceivers[i].kind = c.kind THEN INACTIVE
                      ELSE transceivers[i].direction
          /\ UNCHANGED tables]_vars
\* the call has returned with two inactive transceivers of its kind, one of
\* them carrying a registered local track
C10_Witness ==
    \E c \in calls : /\ c.op = "setMediaTransferActive" /\ c.path = "suspended"
                     /\ Len(transceivers) = 2
                     /\ \A i \in DOMAIN transceivers :
                           transceivers[i].kind = c.kind /\ transceivers[i].direction = INACTIVE
                     /\ \E i \in DOMAIN transceivers, k \in RtcIds :
                           /\ MapHas(localTracks, k)
                           /\ transceivers[i].sender = getTrack(LiveTrack(k))

C12_OneBindingPerTrack ==
    \A id \in RtcIds :
        Cardinality({i \in DOMAIN transceivers :
                        transceivers[i].sender = getTrack(LiveTrack(id))}) <= 1

\* the sections of a description that carry rids or a simulcast line
Carriers(media) ==
    {i \in DOMAIN media : \/ media[i].rids # NoRids
                          \/ media[i].simulcast # Undefined
                          \/ media[i].simulcast_03 # Undefined}
VideoSections(media) == {i \in DOMAIN media : media[i].type = VIDEO}
FirstVideo(media) == CHOOSE i \in VideoSections(media) : \A j \in VideoSections(media) : i <= j
SimulcastInserted ==
    /\ returned.state # "not called"
    /\ ~browser.usesSdpMungingForSimulcast
    /\ VideoSections(argument.media) # {}

\* C13: the description returned by insertUnifiedPlanSimulcastReceive for a
\* description with a video section has rids or a simulcast line in no
\* section but the first video section.
C13_OnlyFirstVideoCarriesSimulcast ==
    SimulcastInserted =>
        /\ returned.state = "returned"
        /\ Carriers(returned.value.media) \subseteq {FirstVideo(argument.media)}

\* C14: for a description with two video sections, (a) none with rids or
\* a simulcast line: the first video section gets the rids "1", "2", "3" to
\* receive and a simulcast line to receive, and no other section changes;
\* (b) both with rids and a simulcast line: the second loses them and no
\* other section changes.
C14_InsertsOrStrips ==
    SimulcastInserted /\ Cardinality(VideoSections(argument.media)) >= 2 =>
        LET in == argument.media
            out == returned.value.media
            idx == FirstVideo(in)
            has(m) == m.rids # NoRids /\ (m.simulcast # Undefined \/ m.simulcast_03 # Undefined)
        IN  /\ Carriers(in) = {} =>
                /\ DOMAIN out = DOMAIN in
                /\ [i \in DOMAIN out[idx].rids |-> out[idx].rids[i].id] = <<"1", "2", "3">>
                /\ \A i \in DOMAIN out[idx].rids : out[idx].rids[i].direction = "recv"
                /\ out[idx].simulcast_03 \in {"recv rid=1;2;3", "recv 1;2;3"}
                /\ \A i \in DOMAIN in \ {idx} : out[i] = in[i]
            /\ (\A i \in VideoSections(in) : has(in[i])) =>
                /\ DOMAIN out = DOMAIN in
                /\ \A i \in DOMAIN in :
                      out[i] = IF i \in VideoSections(in) \ {idx}
                               THEN MediaSection(VIDEO, NoRids, Undefined, Undefined,
                                                 in[i].ssrcs, in[i].ssrcGroups)
                               ELSE in[i]
\* the second of two video sections that both had rids and both simulcast
\* lines has lost them
C14_Witness ==
    /\ SimulcastInserted
    /\ Len(argument.media) = 2
    /\ \A i \in 1..2 : /\ argument.media[i].type = VIDEO
                       /\ argument.media[i].rids = SendRids
                       /\ argument.media[i].simulcast # Undefined
                       /\ argument.media[i].simulcast_03 # Undefined
    /\ Carriers(returned.value.media) = {1}

\* the ids of the sources of a section, in the order of its source list
SourceIds(mLine) == [i \in DOMAIN mLine.ssrcs |-> toString(mLine.ssrcs[i].id)]
FidGroups(mLine) == {k \in DOMAIN mLine.ssrcGroups : mLine.ssrcGroups[k].semantics = "FID"}
\* the source list has the primary source of the group right before its
\* retransmission source
PrimaryBeforeRtx(mLine, group) ==
    \E i \in DOMAIN mLine.ssrcs :
        /\ i + 1 \in DOMAIN mLine.ssrcs
        /\ SourceIds(mLine)[i] = group.ssrcs[1]
        /\ SourceIds(mLine)[i + 1] = group.ssrcs[2]
OrderedSection(mLine) ==
    \A k \in FidGroups(mLine) : PrimaryBeforeRtx(mLine, mLine.ssrcGroups[k])

\* C15: in the description returned by ensureCorrectOrderOfSsrcs, every
\* section that is not audio lists, for each of its FID groups, the primary
\* source right before the retransmission source.
C15_PrimaryBeforeRtx ==
    returned.state = "returned" =>
        \A i \in DOMAIN returned.value.media :
            returned.value.media[i].type # AUDIO => OrderedSection(returned.value.media[i])

\* C16: ensureCorrectOrderOfSsrcs returns the source list of a section
\* unchanged when the section has every FID primary right before its
\* retransmission source, when it is audio and when it has no group; and
\* applied to the description it returned, it returns that description.
C16_OrderedIsUnchanged ==
    returned.state = "returned" =>
        /\ DOMAIN returned.value.media = DOMAIN argument.media
        /\ \A i \in DOMAIN argument.media :
              LET mLine == argument.media[i]
              IN  \/ OrderedSection(mLine)
                  \/ mLine.type = AUDIO
                  \/ mLine.ssrcGroups = <<>>
                  => returned.value.media[i].ssrcs = mLine.ssrcs
        /\ ensureCorrectOrderOfSsrcs(returned.value) = returned


\* every encoding reports one and the same factor
AllFactorsEqualAndDefined(encodings) ==
    \E f \in ScaleFactors :
        \A i \in DOMAIN encodings :
            hasScaleResolutionDownBy(encodings[i]) /\ encodings[i].scaleResolutionDownBy = f

\* C17: updateEncodingsResolution never changes the configuration of the
\* layers, and applied again to the parameters it left it leaves them as
\* they are; on a WebKit based browser it leaves parameters unchanged that
\* have no encodings or whose encodings do not all report one and the same
\* factor, and otherwise gives each encoding the factor the configuration
\* has at its position and changes nothing else.
C17_UpdateEncodingsResolution ==
    returned.state = "returned" =>
        LET before == argument.parameters
            after == returned.value.parameters
            config == argument.this.localStreamEncodingsConfig
        IN  /\ returned.value.this = argument.this
            /\ updateEncodingsResolution(browser, returned.value.this, after) = returned
            /\ browser.isWebKitBased =>
                  IF \/ "encodings" \notin DOMAIN before
                     \/ before.encodings = <<>>
                     \/ ~AllFactorsEqualAndDefined(before.encodings)
                  THEN after = before
                  ELSE /\ after.transactionId = before.transactionId
                       /\ DOMAIN after.encodings = DOMAIN before.encodings
                       /\ \A i \in DOMAIN after.encodings :
                             /\ after.encodings[i].scaleResolutionDownBy
                                   = config[i].scaleResolutionDownBy
                             /\ after.encodings[i].active = before.encodings[i].active
\* on a WebKit based browser three encodings that all reported the factor 1
\* have been given the factors 4, 2, 1 of the configuration
C17_Witness ==
    /\ returned.state = "returned"
    /\ browser.isWebKitBased
    /\ "encodings" \in DOMAIN argument.parameters
    /\ Len(argument.parameters.encodings) = 3
    /\ \A i \in 1..3 : /\ hasScaleResolutionDownBy(argument.parameters.encodings[i])
                       /\ argument.parameters.encodings[i].scaleResolutionDownBy = 1
    /\ [i \in 1..3 |-> returned.value.parameters.encodings[i].scaleResolutionDownBy]
          = <<4, 2, 1>>


\* the setEncodings calls this step starts for a track that no transceiver
\* is found for
StartedWithoutTransceiver ==
    {c \in Started("setEncodings") :
        findTransceiver(transceivers, getType(c.old), c.old) = NotFound}

\* C18 as stated: setEncodings(track), called when no transceiver is found
\* for the track, returns a failed asynchronous result.
C18_NotFoundIsAFailure ==
    [][\A c \in StartedWithoutTransceiver : c.state = "rejected"]_vars
\* C18: setEncodings(track), called when no transceiver is found for the
\* track, returns a promise that is already resolved; it asks no sender to
\* commit parameters and writes neither the transceivers nor the tables.
C18_NotFoundResolves ==
    [][\A c \in StartedWithoutTransceiver :
          /\ c.state = "resolved"
          /\ c.tr = NotFound
          /\ UNCHANGED <<transceivers, tables>>]_vars
\* setEncodings was called for a registered camera that none of the
\* transceivers is found for, and its promise is resolved
C18_Witness ==
    \E c \in calls :
        /\ c.op = "setEncodings" /\ c.state = "resolved"
        /\ transceivers # <<>>
        /\ MapHas(localTracks, c.old.rtcId)
        /\ findTransceiver(transceivers, getType(c.old), c.old) = NotFound


\* the replaceTrack calls whose promise becomes resolved in this step: calls
\* that were pending, and the call the step starts when it resolves at once
ResolvedNow ==
    {d \in calls' : /\ d.op = "replaceTrack" /\ d.state = "resolved"
                    /\ \A c \in calls : c.old = d.old /\ c.new = d.new => c.state \notin Settled}
\* the entries of the two Maps for the tracks the call does not name
OtherEntriesUnchanged(d) ==
    \A k \in DOMAIN localTracks \ {d.old.rtcId, d.new.rtcId} :
        localTracks'[k] = localTracks[k] /\ localSSRCs'[k] = localSSRCs[k]
\* every table write of the call is in this step
CompleteWrites(d) ==
    /\ OtherEntriesUnchanged(d)
    /\ d.path = "replace" =>
          /\ ~MapHas(localTracks', d.old.rtcId) /\ ~MapHas(localSSRCs', d.old.rtcId)
          /\ MapHas(localTracks', d.new.rtcId) /\ MapHas(localSSRCs', d.new.rtcId)
          /\ InSeq(getOriginalStream(d.new), addedStreams')
    /\ d.path = "nostream" =>
          /\ ~MapHas(localTracks', d.old.rtcId) /\ MapHas(localTracks', d.new.rtcId)
          /\ UNCHANGED <<localSSRCs, addedStreams>>
    /\ d.path = "mute" =>
          /\ ~MapHas(localTracks', d.old.rtcId) /\ ~MapHas(localSSRCs', d.old.rtcId)
          /\ UNCHANGED addedStreams
    /\ d.path = "unmute" =>
          /\ MapHas(localTracks', d.new.rtcId)
          /\ UNCHANGED <<localSSRCs, addedStreams>>

\* C19: while replaceTrack calls for different tracks are pending together,
\* a step that writes the id -> track table, the SSRC table or the
\* added-streams list is the step in which the promise of exactly one of
\* the calls becomes resolved, and that step holds every table write of the
\* call: after it oldTrack has an entry in neither Map and newTrack has
\* its entries, so no step in between sees some of the writes only.
C19_TableWritesInOneStep ==
    [][/\ tables' # tables => Cardinality(ResolvedNow) = 1
       /\ \A d \in ResolvedNow : CompleteWrites(d)]_vars
\* a replacement of camera A by camera B has resolved and its writes are
\* in the tables while a mute of the microphone is pending at its sender
C19_Witness ==
    \E c, d \in calls :
        /\ c.path = "replace" /\ c.state = "resolved" /\ c.old.rtcId = "camA"
        /\ d.path = "mute" /\ d.state = "sender" /\ d.old.rtcId = MicId
        /\ ~MapHas(localTracks, "camA") /\ ~MapHas(localSSRCs, "camA")
        /\ MapGet(localTracks, "camB") = "camB" /\ MapGet(localSSRCs, "camB") = "ssrc1"
        /\ MapHas(localTracks, MicId) /\ MapHas(localSSRCs, MicId)


Pending == {c \in calls : c.state \notin Settled}
\* the record of a call keeps its outcome once it has one, and a call that
\* has passed its sender call does not make it again
OneOutcomeNoRetry ==
    \A c \in calls :
        /\ c.state \in Settled => c \in calls' \/ calls' = calls \ {c}
        /\ c.state \notin Settled =>
              /\ Cardinality({d \in calls' : d.op = c.op /\ d.old = c.old /\ d.new = c.new}) = 1
              /\ After(c).state # c.state => c.state = "sender" \/ After(c).state \in Settled

\* C20: when the browser settles every sender call and every commit of
\* parameters, a call of addTrackUnmute, removeTrackMute, replaceTrack or
\* setEncodings that is pending is settled later; it gets one outcome,
\* which it keeps, and no transport call of it is made a second time.
C20_EveryCallSettles ==
    /\ [][OneOutcomeNoRetry]_vars
    /\ (Pending # {}) ~> (Pending = {})
\* an unmute by replaceTrack has resolved after its sender call and its
\* commit of the encodings have both settled
C20_Witness ==
    \E c \in calls :
        /\ c.path = "unmute" /\ c.state = "resolved" /\ c.tr # NotFound
        /\ ~browser.isChromiumBased
        /\ transceivers[c.tr].sender = getTrack(c.new)
        /\ MapHas(localTracks, c.new.rtcId)


\* C21: every id that has an entry in the SSRC table has an entry in the
\* id -> track table, whatever replaceTrack calls have completed.
C21_SsrcHasTrack ==
    \A k \in DOMAIN localSSRCs : MapHas(localSSRCs, k) => MapHas(localTracks, k)

\* the unmute calls of replaceTrack whose commit of the encodings is
\* rejected in this step
CommitRejected ==
    {c \in calls : /\ c.path = "unmute" /\ c.state = "parameters"
                   /\ After(c).state = "rejected"}
\* C22: the step in which the commit of the encodings of
\* replaceTrack(undefined, newTrack) is rejected makes the call fail and
\* writes neither the tables (newTrack is not added to the id -> track
\* table) nor the transceivers: the sender keeps newTrack's media and the
\* direction stays sendrecv; and a pending commit adds newTrack to the
\* table only in the step in which it resolves.
C22_RejectedCommitKeepsTransport ==
    [][/\ \A c \in CommitRejected :
             /\ UNCHANGED <<tables, transceivers>>
             /\ transceivers'[c.tr].sender = getTrack(c.new)
             /\ transceivers'[c.tr].direction = SENDRECV
       /\ \A c \in calls : c.path = "unmute" /\ c.state = "parameters" =>
             (localTracks' # localTracks => After(c).state = "resolved")]_vars
\* on a browser where the encodings are set on unmute, an unmute of camera
\* B by replaceTrack has failed at the commit while camera B is not in the
\* id -> track table, its media is on the sender of a claimed remote
\* transceiver and the direction is sendrecv
C22_Witness ==
    \E c \in calls :
        /\ c.op = "replaceTrack" /\ c.path = "unmute" /\ c.state = "rejected"
        /\ ~browser.isChromiumBased
        /\ c.new = LiveTrack("camB") /\ c.tr # NotFound
        /\ ~MapHas(localTracks, "camB")
        /\ transceivers[c.tr] = Transceiver(VIDEO, getTrack(c.new), SENDRECV)

====
